---- MODULE Spec2Model ----
(***************************************************************************)
(* A state-machine model of ConversationManager (src/auto_ai.py): the      *)
(* tool registry built by add_tool_class, the context list, and send()     *)
(* with its streamed-response aggregation, LoopGuard check, tool dispatch  *)
(* and the nested send() of the corrective message.                        *)
(*                                                                         *)
(* Python values: strings are TLA+ strings (concatenated with \o), None is *)
(* the string None, a dict key that is not present is Absent.  A list is a *)
(* sequence; the dict final_tool_calls is the sequence of its values in    *)
(* insertion order, which is the order .items() iterates in.               *)
(***************************************************************************)
EXTENDS Naturals, Sequences, FiniteSets, TLC

\* ------------------------------------------------------------- bounds
\* chunks the transport delivers in one run (over all its streams)
MaxChunks == 4
\* the same, in the runs that follow LoopGuard through several turns
MaxLoopChunks == 6
\* a public send() is accepted while the context is shorter than this
MaxCtx == 7
\* add_tool_class calls in one run
MaxReg == 1
\* the same, in the runs about the registry
MaxRegs == 3
\* add_tool_class calls and chunks delivered in one run of the runs about the
\* descriptors
MaxSchemaRegs == 2
MaxSchemaChunks == 4
\* chunks delivered in one run of the runs about the context
MaxCtxChunks == 4
\* calls of insert_context and load_system_prompt in one of those runs
MaxInserts == 1
\* public calls of send() in one of those runs
MaxTurns == 2

None == "<None>"
Absent == "<absent>"

\* ---------------------------------------------------------- providers
(***************************************************************************)
(* A provider (a tool class or module) is the list of its members in the   *)
(* order dir() enumerates them (sorted by name).  A member has a name,     *)
(* whether the name starts with "_", whether it is callable, its declared  *)
(* parameters <<name, annotation>> or <<name, annotation, default>> (the   *)
(* annotation and the default as str(param) prints them, the annotation    *)
(* None when there is none), the parameters without a default, whether the *)
(* body raises, and the value it returns.  signature tells whether         *)
(* inspect.signature can read the member's parameters: it can for every    *)
(* function written in Python.                                             *)
(***************************************************************************)
Member(name, private, callable, params, required, raises, result) ==
    [name |-> name, private |-> private, callable |-> callable,
     params |-> params, required |-> required, raises |-> raises,
     result |-> result, signature |-> TRUE]

\* a callable inspect.signature raises ValueError for (some C callables)
NoSignature(m) == [m EXCEPT !.signature = FALSE]

\* version = "1"                  def _helper(): return "secret"
\* def boom(): raise ...          def echo(a: int = 0): return "ok"
\* def ping(): return "pong"      def read(path: str): return "data"
ToolsA ==
    [id |-> "ToolsA",
     members |-> << Member("_helper", TRUE, TRUE, <<>>, {}, FALSE, "secret"),
                    Member("boom", FALSE, TRUE, <<>>, {}, TRUE, None),
                    Member("echo", FALSE, TRUE, << <<"a", "int", "0">> >>, {}, FALSE, "ok"),
                    Member("ping", FALSE, TRUE, <<>>, {}, FALSE, "pong"),
                    Member("read", FALSE, TRUE, << <<"path", "str">> >>, {"path"}, FALSE, "data"),
                    Member("version", FALSE, FALSE, <<>>, {}, FALSE, None) >>]

\* def ping(): return "pong-b"    def stat(): return "up"
ToolsB ==
    [id |-> "ToolsB",
     members |-> << Member("ping", FALSE, TRUE, <<>>, {}, FALSE, "pong-b"),
                    Member("stat", FALSE, TRUE, <<>>, {}, FALSE, "up") >>]

\* def now(): return "n"         def scale(x: float): return "s"
\* def search(query: str, limit: int): return "r"
\* def tag(label, on: bool, items: list, depth=0): return "t"
ToolsC ==
    [id |-> "ToolsC",
     members |-> << Member("now", FALSE, TRUE, <<>>, {}, FALSE, "n"),
                    Member("scale", FALSE, TRUE, << <<"x", "float">> >>, {"x"}, FALSE, "s"),
                    Member("search", FALSE, TRUE,
                           << <<"query", "str">>, <<"limit", "int">> >>,
                           {"query", "limit"}, FALSE, "r"),
                    Member("tag", FALSE, TRUE,
                           << <<"label", None>>, <<"on", "bool">>, <<"items", "list">>,
                              <<"depth", None, "0">> >>,
                           {"label", "on", "items"}, FALSE, "t") >>]

\* def alpha(): return "a"       opaque = min       def zeta(): return "z"
ToolsD ==
    [id |-> "ToolsD",
     members |-> << Member("alpha", FALSE, TRUE, <<>>, {}, FALSE, "a"),
                    NoSignature(Member("opaque", FALSE, TRUE, <<>>, {}, FALSE, None)),
                    Member("zeta", FALSE, TRUE, <<>>, {}, FALSE, "z") >>]

MemberNames(cls) == {cls.members[i].name : i \in DOMAIN cls.members}

GetAttr(cls, name) ==
    cls.members[CHOOSE i \in DOMAIN cls.members : cls.members[i].name = name]

\* hasattr(class_obj, name): any attribute, public or not, callable or not
HasAttr(cls, name) == name \in MemberNames(cls)

ParamNames(m) == {m.params[i][1] : i \in DOMAIN m.params}

\* ------------------------------------------------------- SchemaBuilder
\* lines 81-95: the annotation word, "str" when there is none, translated
\* through param_type_map; a word the map does not hold is kept as it is
TypeTag(ann) ==
    LET word == IF ann = None THEN "str" ELSE ann
    IN  CASE word = "str" -> "string"
          [] word = "int" -> "integer"
          [] word = "list" -> "array"
          [] word = "bool" -> "boolean"
          [] OTHER -> word

(***************************************************************************)
(* lines 79-80: the key of a parameter is str(param) up to its first ":".  *)
(* str(param) is "name: annotation", "name: annotation = default", "name"  *)
(* or, without an annotation, "name=default".                              *)
(***************************************************************************)
ParamKey(param) ==
    IF param[2] = None /\ Len(param) = 3 THEN param[1] \o "=" \o param[3] ELSE param[1]

\* lines 104-119: the tool object, by its name and its properties
ToolOf(m) ==
    [name |-> m.name,
     properties |-> {<<ParamKey(m.params[i]), TypeTag(m.params[i][2])>> : i \in DOMAIN m.params}]

\* line 74 raises for some public callable member
SignatureFails(members) ==
    \E i \in DOMAIN members :
        ~members[i].private /\ members[i].callable /\ ~members[i].signature

(***************************************************************************)
(* lines 60-122: one descriptor per public callable member, in dir()       *)
(* order.  Line 74 has no handler: at the first member whose signature     *)
(* cannot be read the loop is left, with the descriptors appended so far.  *)
(***************************************************************************)
RECURSIVE ToolsOf(_)
ToolsOf(members) ==
    IF members = <<>> THEN <<>>
    ELSE LET m == Head(members)
         IN  IF m.private \/ ~m.callable
             THEN ToolsOf(Tail(members))
             ELSE IF ~m.signature
             THEN <<>>
             ELSE <<ToolOf(m)>> \o ToolsOf(Tail(members))

\* ------------------------------------------------------------ messages
\* a message is a dict with some of the keys role, content, tool_call_id, name
\* and arguments; a key the dict does not have is Absent
Msg(role, content) ==
    [role |-> role, content |-> content, tool_call_id |-> Absent, name |-> Absent,
     arguments |-> Absent]

\* line 203
ToolCallMsg(call) ==
    [role |-> "tool_call", content |-> Absent, tool_call_id |-> call.id,
     name |-> Absent, arguments |-> call.arguments]

\* json.dumps of a str without characters to escape: the text in double quotes
JsonDumpsStr(s) == "\"" \o s \o "\""

\* line 204
ToolResponseMsg(call, response) ==
    [role |-> "tool_response", content |-> JsonDumpsStr(response),
     tool_call_id |-> call.id, name |-> Absent, arguments |-> Absent]

\* line 193: json.dumps({"error": f"ALERT!! ... that isn't {name}."})
Corrective(name) ==
    "{\"error\": \"ALERT!! You are entering an endless loop. Stop what you are doing and choose a different action. Details: You already called this tool before! look at your list of tools and call a tool that isn't "
    \o name \o ".\"}"

\* ---------------------------------------------------------------- JSON
(***************************************************************************)
(* json.loads on the argument strings the streams of this model can build: *)
(* every concatenation of the fragments "", "{}", "{\"a\":", "1}" and      *)
(* "{\"a\":1}".  Among those, the JSON documents are exactly "{}" and      *)
(* "{\"a\":1}" (any further fragment after a complete object is "Extra     *)
(* data", and no other concatenation closes its braces).                   *)
(***************************************************************************)
ParseJSON(s) ==
    CASE s = "{}" -> [ok |-> TRUE, keys |-> {}]
      [] s = "{\"a\":1}" -> [ok |-> TRUE, keys |-> {"a"}]
      [] OTHER -> [ok |-> FALSE, keys |-> {}]

\* --------------------------------------------------------------- state
VARIABLES
    ctx,                  \* self._ctx
    tools,                \* self._tools
    toolclasses,          \* self._toolclasses
    last_tool_call,       \* self._last_tool_call
    last_tool_call_args,  \* self._last_tool_call_args
    stack,                \* the active send() calls, the outer one first
    turn,                 \* history: the outermost send() of the current turn
    dispatched,           \* history: <<name, arguments>> of the last call whose
                          \* operation returned and whose records were appended
    delivered,            \* history: the number of chunks received so far
    registration          \* history: the exception the last add_tool_class
                          \* raised, None when it returned (or was never called)

vars == <<ctx, tools, toolclasses, last_tool_call, last_tool_call_args,
          stack, turn, dispatched, delivered, registration>>

(***************************************************************************)
(* A frame is one activation of send().  pc is where it stands: "stream"   *)
(* in the loop of line 158, "dispatch" in the loop of line 179 before the  *)
(* call at position pos of final_tool_calls, "vetoed" inside the nested    *)
(* send() of line 193.  silent is the parameter of line 139.  messages     *)
(* (the messages of the request of line 148), received (the chunks the     *)
(* transport handed over) and order (the indices line 179 has taken so     *)
(* far) are history.                                                       *)
(***************************************************************************)
NewFrame ==
    [pc |-> "stream", chunks |-> <<>>, final_tool_calls |-> <<>>, pos |-> 1,
     received |-> <<>>, order |-> <<>>, silent |-> FALSE, messages |-> <<>>]

(***************************************************************************)
(* turn is history about the outermost send() of the current turn: whether *)
(* it is running, has returned (value) or has raised (exc), the operations *)
(* invoked under it, the length of the context and the number of           *)
(* registered classes when it was called, the chunks it received, its      *)
(* parameter silent, and out: what lines 143 and 165 (the two writes that  *)
(* silent guards) have written under it, nested sends included.            *)
(***************************************************************************)
NoTurn ==
    [status |-> "none", value |-> None, exc |-> None, invoked |-> <<>>, base |-> 0,
     classes |-> 0, stream |-> <<>>, silent |-> FALSE, out |-> <<>>]

\* lines 39-45
Init ==
    /\ ctx = <<>>
    /\ tools = <<>>
    /\ toolclasses = <<>>
    /\ last_tool_call = None
    /\ last_tool_call_args = None
    /\ stack = <<>>
    /\ turn = NoTurn
    /\ dispatched = <<None, None>>
    /\ delivered = 0
    /\ registration = None

Depth == Len(stack)
Top == stack[Depth]
Idle == stack = <<>>

\* ------------------------------------------------------ StreamAggregator
Indices(ftc) == {ftc[k].index : k \in DOMAIN ftc}

PosOf(ftc, index) == CHOOSE k \in DOMAIN ftc : ftc[k].index = index

(***************************************************************************)
(* lines 171-176 for one tool-call delta.  For the first delta of an index *)
(* the dict entry IS the delta object, so line 176 appends the delta's     *)
(* arguments to themselves; for a later delta it appends them to the entry.*)
(***************************************************************************)
Merge(ftc, tool_call) ==
    IF tool_call.index \notin Indices(ftc)
    THEN Append(ftc, [tool_call EXCEPT !.arguments = tool_call.arguments \o tool_call.arguments])
    ELSE [ftc EXCEPT ![PosOf(ftc, tool_call.index)].arguments = @ \o tool_call.arguments]

RECURSIVE MergeAll(_, _)
MergeAll(ftc, tool_calls) ==
    IF tool_calls = <<>> THEN ftc
    ELSE MergeAll(Merge(ftc, Head(tool_calls)), Tail(tool_calls))

\* lines 162-163
AddContent(chunks, content) ==
    IF content # None /\ content # "" THEN Append(chunks, content) ELSE chunks

\* "".join(chunks)
RECURSIVE Join(_)
Join(chunks) == IF chunks = <<>> THEN "" ELSE Head(chunks) \o Join(Tail(chunks))

\* ------------------------------------------------------------ Dispatcher
\* lines 181-188 without the test of line 183: the last class that has it
FindToolClassLast(name) ==
    IF \E k \in DOMAIN toolclasses : HasAttr(toolclasses[k], name)
    THEN CHOOSE k \in DOMAIN toolclasses :
            /\ HasAttr(toolclasses[k], name)
            /\ \A j \in (k + 1)..Len(toolclasses) : ~HasAttr(toolclasses[j], name)
    ELSE 0

\* lines 181-188: the first registered class that has the attribute, 0 for None
FindToolClass(name) ==
    IF \E k \in DOMAIN toolclasses : HasAttr(toolclasses[k], name)
    THEN CHOOSE k \in DOMAIN toolclasses :
            /\ HasAttr(toolclasses[k], name)
            /\ \A j \in 1..(k - 1) : ~HasAttr(toolclasses[j], name)
    ELSE 0

\* line 191 without its comparison of the arguments
LoopGuardMatchNameOnly(call) == call.name = last_tool_call

\* line 191
LoopGuardMatch(call) ==
    call.name = last_tool_call /\ call.arguments = last_tool_call_args

\* lines 196-201 with a failure of the call of line 201 swallowed
TryCallLenient(cls, call) ==
    LET parsed == ParseJSON(call.arguments)
    IN  IF ~HasAttr(cls, call.name)
        THEN [exc |-> "AttributeError", called |-> FALSE, value |-> None]
        ELSE IF ~parsed.ok
        THEN [exc |-> "JSONDecodeError", called |-> FALSE, value |-> None]
        ELSE [exc |-> None, called |-> TRUE, value |-> GetAttr(cls, call.name).result]

(***************************************************************************)
(* lines 196-201: getattr, json.loads, the keyword call of line 201. exc is *)
(* the exception raised, None when the operation returned; called tells    *)
(* whether the operation's body was entered.                               *)
(***************************************************************************)
TryCall(cls, call) ==
    LET parsed == ParseJSON(call.arguments)
    IN  IF ~HasAttr(cls, call.name)
        THEN [exc |-> "AttributeError", called |-> FALSE, value |-> None]
        ELSE LET m == GetAttr(cls, call.name)
             IN  IF ~parsed.ok
                 THEN [exc |-> "JSONDecodeError", called |-> FALSE, value |-> None]
                 ELSE IF ~m.callable
                          \/ ~(parsed.keys \subseteq ParamNames(m))
                          \/ ~(m.required \subseteq parsed.keys)
                 THEN [exc |-> "TypeError", called |-> FALSE, value |-> None]
                 ELSE IF m.raises
                 THEN [exc |-> "Exception", called |-> TRUE, value |-> None]
                 ELSE [exc |-> None, called |-> TRUE, value |-> m.result]

CurCall == Top.final_tool_calls[Top.pos]

InDispatch ==
    /\ ~Idle
    /\ Top.pc = "dispatch"
    /\ Top.pos <= Len(Top.final_tool_calls)

Invocation(k, call) ==
    [cls |-> k, provider |-> toolclasses[k].id, name |-> call.name,
     arguments |-> call.arguments, index |-> call.index, depth |-> Depth]

\* the frame after one iteration of the loop of line 179
Advance(frame) ==
    [frame EXCEPT !.pos = @ + 1,
                  !.order = Append(@, frame.final_tool_calls[frame.pos].index)]

\* an exception leaves every active send(): none of them has a handler
Raise(exc) ==
    /\ stack' = <<>>
    /\ turn' = [turn EXCEPT !.status = "raised", !.exc = exc]


\* -------------------------------------------------------------- actions
(***************************************************************************)
(* lines 47-122; as in the driver (lines 223-236) classes are added before *)
(* the first send().  The class is appended at line 58, before the loop,   *)
(* so it stays registered when line 74 raises.                             *)
(***************************************************************************)
AddToolClass(toolclass, bound) ==
    /\ Idle
    /\ turn.status = "none"
    /\ Len(toolclasses) < bound
    /\ toolclasses' = Append(toolclasses, toolclass)
    /\ tools' = tools \o ToolsOf(toolclass.members)
    /\ registration' = IF SignatureFails(toolclass.members) THEN "ValueError" ELSE None
    /\ UNCHANGED <<ctx, last_tool_call, last_tool_call_args, stack, turn,
                   dispatched, delivered>>

\* lines 133-137 with insert(0, ...) for append
InsertContextFront(role, msg) ==
    /\ Idle
    /\ Len(ctx) < MaxCtx
    /\ ctx' = <<Msg(role, msg)>> \o ctx
    /\ UNCHANGED <<tools, toolclasses, registration, last_tool_call,
                   last_tool_call_args, stack, turn, dispatched, delivered>>

\* lines 133-137: the content appended is str(msg); msg_stripped is not used
InsertContext(role, msg) ==
    /\ Idle
    /\ Len(ctx) < MaxCtx
    /\ ctx' = Append(ctx, Msg(role, msg))
    /\ UNCHANGED <<tools, toolclasses, registration, last_tool_call,
                   last_tool_call_args, stack, turn, dispatched, delivered>>

\* lines 124-131: prompt is what system_prompt.md holds ("" when it was missing)
LoadSystemPrompt(prompt) == InsertContext("system", prompt)

\* lines 30 and 32: what log() prints (not cut at 100 characters here)
LogLine(event, msg) == [event |-> event, msg |-> msg]

\* line 165: what print() writes
Printed(content) == [event |-> None, msg |-> content]

\* lines 142-153 with the request sent before insert_context
BeginUnpersisted(context, out, role, msg, silent) ==
    [ctx |-> Append(context, Msg(role, msg)),
     out |-> IF ~silent THEN Append(out, LogLine("REQUEST TO AI", role \o ": " \o msg))
             ELSE out,
     frame |-> [NewFrame EXCEPT !.silent = silent, !.messages = context]]

(***************************************************************************)
(* lines 142-153: the log line unless silent, insert_context, then the     *)
(* request with messages=self._ctx; the frame is the send() that waits for *)
(* the stream.                                                             *)
(***************************************************************************)
Begin(context, out, role, msg, silent) ==
    [ctx |-> Append(context, Msg(role, msg)),
     out |-> IF ~silent THEN Append(out, LogLine("REQUEST TO AI", role \o ": " \o msg))
             ELSE out,
     frame |-> [NewFrame EXCEPT !.silent = silent,
                                !.messages = Append(context, Msg(role, msg))]]

\* lines 162-165 with line 163 under the condition of line 164
OnTokenMuted(chunks, out, content, silent) ==
    [chunks |-> IF silent THEN chunks ELSE AddContent(chunks, content),
     out |-> IF content # None /\ content # "" /\ ~silent
             THEN Append(out, Printed(content)) ELSE out]

\* lines 162-165: the text of a chunk is kept, and printed unless silent
OnToken(chunks, out, content, silent) ==
    [chunks |-> AddContent(chunks, content),
     out |-> IF content # None /\ content # "" /\ ~silent
             THEN Append(out, Printed(content)) ELSE out]

\* lines 139-153 of the outermost send()
Send(role, msg, silent) ==
    /\ Idle
    /\ Len(ctx) < MaxCtx
    /\ LET begun == Begin(ctx, <<>>, role, msg, silent)
       IN  /\ ctx' = begun.ctx
           /\ stack' = <<begun.frame>>
           /\ turn' = [status |-> "running", value |-> None, exc |-> None,
                       invoked |-> <<>>, base |-> Len(ctx),
                       classes |-> Len(toolclasses), stream |-> <<>>,
                       silent |-> silent, out |-> begun.out]
    /\ UNCHANGED <<tools, toolclasses, registration, last_tool_call, last_tool_call_args,
                   dispatched, delivered>>

\* send(role, msg): silent is False by default
SendBegin(role, msg) == Send(role, msg, FALSE)

\* lines 158-176: one chunk of the stream
StreamChunk(chunk, budget) ==
    /\ ~Idle
    /\ Top.pc = "stream"
    /\ delivered < budget
    \* the transport's protocol: the first delta of an index names the call
    /\ \A k \in DOMAIN chunk.tool_calls :
          chunk.tool_calls[k].name = None =>
             \/ chunk.tool_calls[k].index \in Indices(Top.final_tool_calls)
             \/ \E j \in 1..(k - 1) : chunk.tool_calls[j].index = chunk.tool_calls[k].index
    /\ LET token == OnToken(Top.chunks, turn.out, chunk.content, Top.silent)
       IN  /\ stack' = [stack EXCEPT ![Depth] =
                           [@ EXCEPT !.chunks = token.chunks,
                                     !.final_tool_calls = MergeAll(@, chunk.tool_calls),
                                     !.received = Append(@, chunk)]]
           /\ turn' = [turn EXCEPT !.stream = IF Depth = 1 THEN Append(@, chunk) ELSE @,
                                   !.out = token.out]
    /\ delivered' = delivered + 1
    /\ UNCHANGED <<ctx, tools, toolclasses, registration, last_tool_call, last_tool_call_args,
                   dispatched>>

\* the stream closes: the loop of line 158 ends
StreamEnd ==
    /\ ~Idle
    /\ Top.pc = "stream"
    /\ stack' = [stack EXCEPT ![Depth].pc = "dispatch"]
    /\ UNCHANGED <<ctx, tools, toolclasses, registration, last_tool_call, last_tool_call_args,
                   turn, dispatched, delivered>>

\* lines 148-158: the request or the stream raises
TransportError ==
    /\ ~Idle
    /\ Top.pc = "stream"
    /\ Raise("TransportError")
    /\ UNCHANGED <<ctx, tools, toolclasses, registration, last_tool_call, last_tool_call_args,
                   dispatched, delivered>>

\* lines 208-209
DispatchLookupFail ==
    /\ InDispatch
    /\ FindToolClass(CurCall.name) = 0
    /\ stack' = [stack EXCEPT ![Depth] = Advance(@)]
    /\ UNCHANGED <<ctx, tools, toolclasses, registration, last_tool_call, last_tool_call_args,
                   turn, dispatched, delivered>>

\* lines 191-193 with the stored pair cleared by the veto
DispatchVetoForget ==
    /\ InDispatch
    /\ FindToolClass(CurCall.name) # 0
    /\ LoopGuardMatch(CurCall)
    /\ LET begun == Begin(ctx, turn.out, "system", Corrective(CurCall.name), FALSE)
       IN  /\ ctx' = begun.ctx
           /\ stack' = Append([stack EXCEPT ![Depth] = [Advance(@) EXCEPT !.pc = "vetoed"]],
                              begun.frame)
           /\ turn' = [turn EXCEPT !.out = begun.out]
    /\ last_tool_call' = None
    /\ last_tool_call_args' = None
    /\ UNCHANGED <<tools, toolclasses, registration, dispatched, delivered>>

\* lines 191-193: the veto, up to the request of the nested send(), which is
\* called without silent
DispatchVeto ==
    /\ InDispatch
    /\ FindToolClass(CurCall.name) # 0
    /\ LoopGuardMatch(CurCall)
    /\ LET begun == Begin(ctx, turn.out, "system", Corrective(CurCall.name), FALSE)
       IN  /\ ctx' = begun.ctx
           /\ stack' = Append([stack EXCEPT ![Depth] = [Advance(@) EXCEPT !.pc = "vetoed"]],
                              begun.frame)
           /\ turn' = [turn EXCEPT !.out = begun.out]
    /\ UNCHANGED <<tools, toolclasses, registration, last_tool_call, last_tool_call_args,
                   dispatched, delivered>>

\* lines 196-201 raising
DispatchRaise ==
    /\ InDispatch
    /\ FindToolClass(CurCall.name) # 0
    /\ ~LoopGuardMatch(CurCall)
    /\ LET k == FindToolClass(CurCall.name)
           r == TryCall(toolclasses[k], CurCall)
       IN  /\ r.exc # None
           /\ stack' = <<>>
           /\ turn' = [turn EXCEPT !.status = "raised", !.exc = r.exc,
                          !.invoked = IF r.called THEN Append(@, Invocation(k, CurCall))
                                      ELSE @]
    /\ UNCHANGED <<ctx, tools, toolclasses, registration, last_tool_call, last_tool_call_args,
                   dispatched, delivered>>

\* lines 196-207
DispatchSuccess ==
    /\ InDispatch
    /\ FindToolClass(CurCall.name) # 0
    /\ ~LoopGuardMatch(CurCall)
    /\ LET k == FindToolClass(CurCall.name)
           r == TryCall(toolclasses[k], CurCall)
       IN  /\ r.exc = None
           /\ ctx' = ctx \o <<ToolCallMsg(CurCall), ToolResponseMsg(CurCall, r.value)>>
           /\ turn' = [turn EXCEPT !.invoked = Append(@, Invocation(k, CurCall))]
    /\ last_tool_call' = CurCall.name
    /\ last_tool_call_args' = CurCall.arguments
    /\ dispatched' = <<CurCall.name, CurCall.arguments>>
    /\ stack' = [stack EXCEPT ![Depth] = Advance(@)]
    /\ UNCHANGED <<tools, toolclasses, registration, delivered>>

\* lines 212-217 without the return of line 194: the caller goes on dispatching
SendReturnResume ==
    /\ ~Idle
    /\ Top.pc = "dispatch"
    /\ Top.pos > Len(Top.final_tool_calls)
    /\ LET result == Join(Top.chunks)
       IN  /\ ctx' = IF result # "" THEN Append(ctx, Msg("assistant", result)) ELSE ctx
           /\ turn' = IF Depth = 1
                       THEN [turn EXCEPT !.status = "returned", !.value = result]
                       ELSE turn
    /\ stack' = IF Depth = 1 THEN <<>>
                ELSE [SubSeq(stack, 1, Depth - 1) EXCEPT ![Depth - 1].pc = "dispatch"]
    /\ UNCHANGED <<tools, toolclasses, registration, last_tool_call, last_tool_call_args,
                   dispatched, delivered>>

(***************************************************************************)
(* lines 212-217, and line 194 in every caller: each enclosing send() is   *)
(* at line 193, and returns None as soon as its nested send() has returned.*)
(***************************************************************************)
SendReturn ==
    /\ ~Idle
    /\ Top.pc = "dispatch"
    /\ Top.pos > Len(Top.final_tool_calls)
    /\ LET result == Join(Top.chunks)
       IN  /\ ctx' = IF result # "" THEN Append(ctx, Msg("assistant", result)) ELSE ctx
           /\ turn' = [turn EXCEPT !.status = "returned",
                                   !.value = IF Depth = 1 THEN result ELSE None]
    /\ stack' = <<>>
    /\ UNCHANGED <<tools, toolclasses, registration, last_tool_call, last_tool_call_args,
                   dispatched, delivered>>

\* ------------------------------------------------------- specifications
Delta(index, id, name, arguments) ==
    [index |-> index, id |-> id, name |-> name, arguments |-> arguments]

\* a chunk carrying one tool-call delta and no text
Call(index, id, name, arguments) ==
    [content |-> None, tool_calls |-> <<Delta(index, id, name, arguments)>>]

\* a chunk carrying text and no tool-call delta
Text(content) == [content |-> content, tool_calls |-> <<>>]

\* everything send() does once it has been entered
Core(chunks, budget) ==
    \/ \E c \in chunks : StreamChunk(c, budget)
    \/ StreamEnd
    \/ TransportError
    \/ DispatchLookupFail
    \/ DispatchVeto
    \/ DispatchRaise
    \/ DispatchSuccess
    \/ SendReturn

(***************************************************************************)
(* Spec: one provider, and a model that streams calls of ping (complete in *)
(* its first delta, or completed by a second one) at index 0 and calls of  *)
(* an unknown operation, of boom, of read and of the attribute version at  *)
(* index 1.                                                                *)
(***************************************************************************)
Chunks ==
    { Call(0, "call_0", "ping", ""), Call(0, "call_0", "ping", "{}"),
      Call(0, None, None, "{}"),
      Call(1, "call_1", "nope", ""), Call(1, "call_1", "boom", ""),
      Call(1, "call_1", "read", ""), Call(1, "call_1", "version", ""),
      Call(1, None, None, "{}") }

Next ==
    \/ AddToolClass(ToolsA, MaxReg)
    \/ SendBegin("user", "Y")
    \/ Core(Chunks, MaxChunks)

Spec == Init /\ [][Next]_vars

(***************************************************************************)
(* SpecLoop: one provider, and a model that streams calls of echo (with    *)
(* the arguments {} or {"a":1}) at index 0 and calls of ping at index 1,   *)
(* each as an empty first delta followed by the arguments.                 *)
(***************************************************************************)
LoopChunks ==
    { Call(0, "call_0", "echo", ""), Call(0, None, None, "{}"),
      Call(0, None, None, "{\"a\":1}"),
      Call(1, "call_1", "ping", ""), Call(1, None, None, "{}") }

NextLoop ==
    \/ AddToolClass(ToolsA, MaxReg)
    \/ SendBegin("user", "Y")
    \/ Core(LoopChunks, MaxLoopChunks)

SpecLoop == Init /\ [][NextLoop]_vars

(***************************************************************************)
(* SpecReg: up to MaxRegs registrations of two providers that both have an *)
(* operation ping, and a model that streams text and calls of ping.        *)
(***************************************************************************)
RegChunks ==
    { Call(0, "call_0", "ping", ""), Call(0, None, None, "{}"), Text("hi") }

NextReg ==
    \/ \E p \in {ToolsA, ToolsB} : AddToolClass(p, MaxRegs)
    \/ SendBegin("user", "Y")
    \/ Core(RegChunks, MaxChunks)

SpecReg == Init /\ [][NextReg]_vars

(***************************************************************************)
(* SpecCtx: the whole interface of the manager.  One provider; messages    *)
(* inserted with insert_context and load_system_prompt between the turns;  *)
(* send() with silent set and unset; a model that streams a text delta,    *)
(* and calls of ping whose second delta comes in a chunk that also carries *)
(* text.                                                                   *)
(***************************************************************************)
CtxChunks ==
    { Text("a"),
      Call(0, "call_0", "ping", ""),
      [content |-> "b", tool_calls |-> <<Delta(0, None, None, "{}")>>] }

\* the messages insert_context and load_system_prompt have appended
Inserted == {k \in DOMAIN ctx : ctx[k].role = "system" /\ ctx[k].content \in {"X", "P"}}

\* the messages of the public calls of send()
Asked == {k \in DOMAIN ctx : ctx[k].role = "user"}

NextCtx ==
    \/ AddToolClass(ToolsA, MaxReg)
    \/ Cardinality(Inserted) < MaxInserts /\ InsertContext("system", "X")
    \/ Cardinality(Inserted) < MaxInserts /\ LoadSystemPrompt("P")
    \/ \E silent \in BOOLEAN : Cardinality(Asked) < MaxTurns /\ Send("user", "Y", silent)
    \/ Core(CtxChunks, MaxCtxChunks)

SpecCtx == Init /\ [][NextCtx]_vars

(***************************************************************************)
(* SpecSchema: up to MaxSchemaRegs registrations of a provider with        *)
(* annotated, unannotated and defaulted parameters and of a provider with  *)
(* a member whose signature cannot be read, and a model that streams calls *)
(* of now.                                                                 *)
(***************************************************************************)
SchemaChunks ==
    { Call(0, "call_0", "now", ""), Call(0, None, None, "{}") }

NextSchema ==
    \/ \E p \in {ToolsC, ToolsD} : AddToolClass(p, MaxSchemaRegs)
    \/ SendBegin("user", "Y")
    \/ Core(SchemaChunks, MaxSchemaChunks)

SpecSchema == Init /\ [][NextSchema]_vars

(***************************************************************************)
(* SpecPrivate: one provider, and a model that streams calls of ping, of   *)
(* the private function _helper and of the attribute version, each as an   *)
(* empty first delta that a second delta completes.                        *)
(***************************************************************************)
PrivateChunks ==
    { Call(0, "call_0", "ping", ""), Call(0, "call_0", "_helper", ""),
      Call(0, "call_0", "version", ""), Call(0, None, None, "{}") }

NextPrivate ==
    \/ AddToolClass(ToolsA, MaxReg)
    \/ SendBegin("user", "Y")
    \/ Core(PrivateChunks, MaxChunks)

SpecPrivate == Init /\ [][NextPrivate]_vars

\* --------------------------------------------------------------- claims
\* the tool-call deltas of a received stream, in order
RECURSIVE Flatten(_)
Flatten(received) ==
    IF received = <<>> THEN <<>>
    ELSE Head(received).tool_calls \o Flatten(Tail(received))

DeltasAt(deltas, i) == SelectSeq(deltas, LAMBDA d : d.index = i)

RECURSIVE JoinArgs(_)
JoinArgs(deltas) ==
    IF deltas = <<>> THEN "" ELSE Head(deltas).arguments \o JoinArgs(Tail(deltas))

\* name is a public callable operation of some registered provider
NamesOperation(name) ==
    \E k \in DOMAIN toolclasses : \E i \in DOMAIN toolclasses[k].members :
        LET m == toolclasses[k].members[i]
        IN  m.name = name /\ ~m.private /\ m.callable

\* the operation of that name of the provider registered first
Operation(name) ==
    LET Has(k) == \E i \in DOMAIN toolclasses[k].members :
                      LET m == toolclasses[k].members[i]
                      IN  m.name = name /\ ~m.private /\ m.callable
        k == CHOOSE k \in DOMAIN toolclasses : Has(k) /\ \A j \in 1..(k - 1) : ~Has(j)
    IN  GetAttr(toolclasses[k], name)

PairOf(call) == <<call.name, call.arguments>>

(***************************************************************************)
(* C1: once a stream has ended, the entry held for every index i has as    *)
(* arguments the in-order concatenation of the argument fragments of the   *)
(* deltas with index i, each counted once, and the id and name of the      *)
(* first delta with index i; there is an entry for every index streamed.   *)
(***************************************************************************)
C1_Aggregation ==
    \A d \in DOMAIN stack :
        stack[d].pc # "stream" =>
            LET deltas == Flatten(stack[d].received)
                ftc == stack[d].final_tool_calls
            IN  /\ Indices(ftc) = {deltas[k].index : k \in DOMAIN deltas}
                /\ \A k \in DOMAIN ftc :
                      LET mine == DeltasAt(deltas, ftc[k].index)
                      IN  /\ ftc[k].arguments = JoinArgs(mine)
                          /\ ftc[k].id = mine[1].id
                          /\ ftc[k].name = mine[1].name

(***************************************************************************)
(* C2: a send() to a manager with a registered provider whose stream was   *)
(* the single complete call of ping with arguments "{}" has returned "",   *)
(* has invoked ping exactly once, and has appended, after its own message, *)
(* exactly one invocation record and one result record carrying "pong".    *)
(***************************************************************************)
C2_PingEndToEnd ==
    ( /\ turn.status \in {"returned", "raised"}
      /\ turn.classes >= 1
      /\ turn.stream = <<Call(0, "call_0", "ping", "{}")>> )
    => /\ turn.status = "returned"
       /\ turn.value = ""
       /\ Len(turn.invoked) = 1
       /\ turn.invoked[1].name = "ping"
       /\ Len(ctx) = turn.base + 3
       /\ ctx[turn.base + 2].role = "tool_call"
       /\ ctx[turn.base + 3].role = "tool_response"
       /\ ctx[turn.base + 3].content \in {"pong", JsonDumpsStr("pong")}

(***************************************************************************)
(* C3: a call that names a registered operation is vetoed (its frame       *)
(* enters the nested send) if and only if its (name, argument string) pair *)
(* equals the pair of the last successfully dispatched call; otherwise the *)
(* call goes on to its invocation (an operation is invoked or the          *)
(* invocation raises).  Nothing is vetoed before the first dispatch.       *)
(***************************************************************************)
C3_LoopGuardDecision ==
    [][ (InDispatch /\ NamesOperation(CurCall.name)) =>
           LET same == (dispatched = PairOf(CurCall))
           IN  /\ (Len(stack') = Depth + 1) <=> same
               /\ ~same => \/ turn'.status = "raised"
                           \/ Len(turn'.invoked) = Len(turn.invoked) + 1
      ]_vars

\* a call of echo with new arguments was dispatched, and its repetition vetoed
C3_Witness ==
    /\ Depth = 2
    /\ stack[1].pc = "vetoed"
    /\ dispatched = <<"echo", "{\"a\":1}">>
    /\ \E k \in DOMAIN ctx : ctx[k].role = "tool_call" /\ ctx[k].arguments = "{}"

(***************************************************************************)
(* C4: the step that vetoes a call invokes nothing and appends exactly the *)
(* corrective system message to the context, and a send() that has vetoed  *)
(* a call (every frame below the innermost one) takes no further step: it  *)
(* dispatches none of its later calls.                                     *)
(***************************************************************************)
C4_VetoEffect ==
    [][ /\ (InDispatch /\ Len(stack') = Depth + 1) =>
              /\ turn'.invoked = turn.invoked
              /\ ctx' = Append(ctx, Msg("system", Corrective(CurCall.name)))
        /\ \A d \in DOMAIN stack :
              (d < Depth /\ d \in DOMAIN stack') => stack'[d] = stack[d]
      ]_vars

\* a send() has vetoed its first call while a later, dispatchable call waits
C4_Witness ==
    /\ Depth = 2
    /\ stack[1].pc = "vetoed"
    /\ stack[1].pos = 2
    /\ Len(stack[1].final_tool_calls) = 2
    /\ stack[1].final_tool_calls[2].name = "ping"
    /\ stack[1].final_tool_calls[2].arguments = "{}"
    /\ stack[2].pc = "dispatch"

(***************************************************************************)
(* C5: at most one send() is nested below the outer send() of a turn, and  *)
(* no operation is invoked by a nested send().                             *)
(***************************************************************************)
C5_OneLevel ==
    /\ Depth <= 2
    /\ \A k \in DOMAIN turn.invoked : turn.invoked[k].depth = 1

(***************************************************************************)
(* C6: the operations one send() invokes are invoked in ascending order of *)
(* the index of their calls.                                               *)
(***************************************************************************)
C6_AscendingDispatch ==
    \A j, k \in DOMAIN turn.invoked :
        (j < k /\ turn.invoked[j].depth = turn.invoked[k].depth)
            => turn.invoked[j].index < turn.invoked[k].index

(***************************************************************************)
(* C7: a send() does not raise because the argument buffer of one of its   *)
(* calls is not valid JSON.                                                *)
(***************************************************************************)
C7_ParseFailureLocal ==
    ~(turn.status = "raised" /\ turn.exc = "JSONDecodeError")

(***************************************************************************)
(* C8: dispatching a call (here with well-formed arguments) whose name is  *)
(* no operation of any registered provider invokes nothing, appends        *)
(* nothing, leaves LoopGuard's pair, does not raise, and goes on to the    *)
(* next call of the turn.                                                  *)
(***************************************************************************)
C8_LookupFailure ==
    [][ (InDispatch /\ ~NamesOperation(CurCall.name) /\ ParseJSON(CurCall.arguments).ok) =>
           /\ ctx' = ctx
           /\ turn' = turn
           /\ last_tool_call' = last_tool_call
           /\ last_tool_call_args' = last_tool_call_args
           /\ stack' = [stack EXCEPT ![Depth] = Advance(@)]
      ]_vars

\* the call's operation raises, or its argument names are not its parameters
InvocationFails(call) ==
    LET m == Operation(call.name)
        parsed == ParseJSON(call.arguments)
    IN  /\ parsed.ok
        /\ \/ m.raises
           \/ ~(parsed.keys \subseteq ParamNames(m))
           \/ ~(m.required \subseteq parsed.keys)

(***************************************************************************)
(* C9: when a call that is not vetoed names an operation that raises, or   *)
(* whose parameters its argument names do not match, send() raises out of  *)
(* every active frame, appends nothing and leaves LoopGuard's pair.        *)
(***************************************************************************)
C9_InvocationFailure ==
    [][ ( /\ InDispatch
          /\ NamesOperation(CurCall.name)
          /\ dispatched # PairOf(CurCall)
          /\ InvocationFails(CurCall) ) =>
           /\ turn'.status = "raised"
           /\ turn'.exc \in {"Exception", "TypeError"}
           /\ stack' = <<>>
           /\ ctx' = ctx
           /\ last_tool_call' = last_tool_call
           /\ last_tool_call_args' = last_tool_call_args
      ]_vars

\* boom was invoked and raised out of send()
C9_Witness ==
    /\ turn.status = "raised"
    /\ turn.exc = "Exception"
    /\ Len(turn.invoked) = 1
    /\ turn.invoked[1].name = "boom"
    /\ Len(ctx) = turn.base + 1

(***************************************************************************)
(* C10: no two descriptors of the registry have the same name.             *)
(***************************************************************************)
C10_UniqueNames ==
    \A j, k \in DOMAIN tools : j # k => tools[j].name # tools[k].name

\* the registered providers that expose name as a public callable operation
Exposing(name) ==
    {k \in DOMAIN toolclasses :
        \E i \in DOMAIN toolclasses[k].members :
            LET m == toolclasses[k].members[i]
            IN  m.name = name /\ ~m.private /\ m.callable}

Earliest(S) == CHOOSE k \in S : \A j \in S : k <= j

(***************************************************************************)
(* C11: when two or more registered providers expose an operation with the *)
(* name of the call being dispatched, a step that invokes an operation     *)
(* invokes the one of the provider registered earliest among them, and the *)
(* result record it appends carries that provider's return value.          *)
(***************************************************************************)
C11_FirstRegisteredWins ==
    [][ ( /\ InDispatch
          /\ Cardinality(Exposing(CurCall.name)) >= 2
          /\ Len(turn'.invoked) = Len(turn.invoked) + 1 ) =>
           LET first == Earliest(Exposing(CurCall.name))
               inv == turn'.invoked[Len(turn'.invoked)]
           IN  /\ inv.cls = first
               /\ inv.provider = toolclasses[first].id
               /\ inv.name = CurCall.name
               /\ ctx'[Len(ctx')].content
                     = JsonDumpsStr(GetAttr(toolclasses[first], CurCall.name).result)
      ]_vars

\* ToolsB was registered before ToolsA and again after it: its ping answered
C11_Witness ==
    /\ Len(toolclasses) = 3
    /\ toolclasses[1].id = "ToolsB"
    /\ toolclasses[2].id = "ToolsA"
    /\ Len(turn.invoked) = 1
    /\ turn.invoked[1].provider = "ToolsB"
    /\ turn.invoked[1].cls = 1
    /\ ctx[Len(ctx)].content = JsonDumpsStr("pong-b")

IsPrefix(s, t) == Len(s) <= Len(t) /\ SubSeq(t, 1, Len(s)) = s

(***************************************************************************)
(* C12: when a send() (public or nested) issues its request, the messages  *)
(* of the request are the context as it was before the call, in the same   *)
(* order, followed by the new (role, content) message as the last element; *)
(* and that is the whole context at that moment.                           *)
(***************************************************************************)
C12_PersistBeforeSend ==
    [][ (Len(stack') = Depth + 1) =>
           LET request == stack'[Depth + 1].messages
               new == IF Idle THEN Msg("user", "Y")
                      ELSE Msg("system", Corrective(CurCall.name))
           IN  /\ Len(request) = Len(ctx) + 1
               /\ SubSeq(request, 1, Len(ctx)) = ctx
               /\ request[Len(request)] = new
               /\ request = ctx'
      ]_vars

\* insert_context("system", "X") then send("user", "Y"): the request in flight
C12_Witness ==
    /\ Depth = 1
    /\ stack[1].messages = <<Msg("system", "X"), Msg("user", "Y")>>
    /\ ctx = stack[1].messages

\* the text deltas of a received stream, concatenated in order
RECURSIVE TextOf(_)
TextOf(received) ==
    IF received = <<>> THEN ""
    ELSE (IF Head(received).content = None THEN "" ELSE Head(received).content)
         \o TextOf(Tail(received))

(***************************************************************************)
(* C13: a public send() that returns (whether or not it vetoed a call)     *)
(* returns the concatenation of the text deltas of its own stream, and the *)
(* context has gained an assistant message with that text if the text is   *)
(* not empty.                                                              *)
(***************************************************************************)
C13_TurnResult ==
    [][ (~Idle /\ turn'.status = "returned") =>
           LET text == TextOf(stack[1].received)
           IN  /\ turn'.value = text
               /\ text # "" => \E k \in (turn.base + 1)..Len(ctx') :
                                  ctx'[k] = Msg("assistant", text)
      ]_vars

C17_DispatchRecords ==
    [][ ( /\ InDispatch
          /\ Len(turn'.invoked) = Len(turn.invoked) + 1
          /\ turn'.status # "raised" ) =>
           LET value == Operation(CurCall.name).result
           IN  /\ Len(ctx') = Len(ctx) + 2
               /\ SubSeq(ctx', 1, Len(ctx)) = ctx
               /\ ctx'[Len(ctx) + 1].tool_call_id = CurCall.id
               /\ ctx'[Len(ctx) + 1].name = CurCall.name
               /\ ctx'[Len(ctx) + 1].arguments = CurCall.arguments
               /\ ctx'[Len(ctx) + 2].tool_call_id = CurCall.id
               /\ ctx'[Len(ctx) + 2].content \in {value, JsonDumpsStr(value)}
      ]_vars

(***************************************************************************)
(* C18: every step leaves the context it found as a prefix of the new      *)
(* context: messages are appended, never removed, reordered or modified.   *)
(***************************************************************************)
C18_AppendOnly ==
    [][ IsPrefix(ctx, ctx') ]_vars

\* an inserted message, a turn with its records and reply, a vetoed turn with
\* the corrective message, and a send() that failed
C18_Witness ==
    /\ turn.status = "raised"
    /\ Len(ctx) = 7
    /\ ctx[1] = Msg("system", "X")
    /\ ctx[4].role = "tool_response"
    /\ ctx[5] = Msg("assistant", "b")
    /\ ctx[7] = Msg("system", Corrective("ping"))

\* the tag the mapping text, integer, list-like, boolean gives, string otherwise
ExpectedTag(ann) ==
    CASE ann = "str" -> "string"
      [] ann = "int" -> "integer"
      [] ann = "list" -> "array"
      [] ann = "bool" -> "boolean"
      [] OTHER -> "string"

\* the public callable members whose signature can be read
Introspectable(cls) ==
    {i \in DOMAIN cls.members :
        ~cls.members[i].private /\ cls.members[i].callable /\ cls.members[i].signature}

(***************************************************************************)
(* C15: every type tag in the registry is one of string, integer, array,   *)
(* boolean, and every descriptor of an operation of a registered provider  *)
(* maps each declared parameter's name to the tag of its annotation:       *)
(* str to string, int to integer, list to array, bool to boolean, any      *)
(* other annotation or none to string.                                     *)
(***************************************************************************)
C15_TypeTags ==
    /\ \A j \in DOMAIN tools : \A prop \in tools[j].properties :
          prop[2] \in {"string", "integer", "array", "boolean"}
    /\ \A k \in DOMAIN toolclasses : \A i \in Introspectable(toolclasses[k]) :
          LET m == toolclasses[k].members[i]
          IN  \A j \in DOMAIN tools :
                 tools[j].name = m.name =>
                    tools[j].properties =
                       {<<m.params[n][1], ExpectedTag(m.params[n][2])>> : n \in DOMAIN m.params}

(***************************************************************************)
(* C16: no registration raises, and the registry holds a descriptor for    *)
(* every public callable member of every registered provider whose         *)
(* signature can be read, and none for a member whose signature cannot.    *)
(***************************************************************************)
C16_IntrospectionLocal ==
    /\ registration = None
    /\ \A k \in DOMAIN toolclasses : \A i \in DOMAIN toolclasses[k].members :
          LET m == toolclasses[k].members[i]
          IN  IF i \in Introspectable(toolclasses[k])
              THEN \E j \in DOMAIN tools : tools[j].name = m.name
              ELSE \A j \in DOMAIN tools : tools[j].name # m.name

(***************************************************************************)
(* C19: every operation invoked has a name that is in the descriptor       *)
(* registry, and dispatching a call whose name is an attribute of a        *)
(* registered provider but no public callable operation of any is a lookup *)
(* failure: nothing is invoked, nothing is appended, send() does not raise *)
(* and goes on to its next call.                                           *)
(***************************************************************************)
C19_OnlyAdvertised ==
    [][ /\ \A k \in DOMAIN turn'.invoked :
              \E j \in DOMAIN tools' : tools'[j].name = turn'.invoked[k].name
        /\ ( /\ InDispatch
             /\ FindToolClass(CurCall.name) # 0
             /\ ~NamesOperation(CurCall.name) ) =>
               /\ turn'.invoked = turn.invoked
               /\ turn'.status # "raised"
               /\ ctx' = ctx
               /\ Len(stack') = Depth
               /\ stack'[Depth].pos = Top.pos + 1
      ]_vars

\* self._last_tool_call and self._last_tool_call_args
StoredPair == <<last_tool_call, last_tool_call_args>>

(***************************************************************************)
(* C20: the step that vetoes a call leaves the stored (name, arguments)    *)
(* pair as it was; the pair changes only in a step that dispatches a call  *)
(* successfully (it invokes the operation, appends the two records and     *)
(* stores that call's pair); and whenever a call that names a registered   *)
(* operation equals the stored pair, it is vetoed, whatever vetoed,        *)
(* lookup-failed or failing calls came since the pair was stored.          *)
(***************************************************************************)
C20_VetoKeepsPair ==
    [][ /\ (InDispatch /\ Len(stack') = Depth + 1) => StoredPair' = StoredPair
        /\ (StoredPair' # StoredPair) =>
              /\ InDispatch
              /\ StoredPair' = PairOf(CurCall)
              /\ Len(turn'.invoked) = Len(turn.invoked) + 1
              /\ turn'.status = "running"
              /\ Len(ctx') = Len(ctx) + 2
        /\ (InDispatch /\ NamesOperation(CurCall.name) /\ PairOf(CurCall) = StoredPair) =>
              /\ Len(stack') = Depth + 1
              /\ turn'.invoked = turn.invoked
      ]_vars

\* echo was dispatched in one turn, vetoed in the next, and is vetoed again in
\* the turn after that
C20_Witness ==
    /\ Depth = 2
    /\ stack[1].pc = "vetoed"
    /\ StoredPair = <<"echo", "{}">>
    /\ Len(ctx) = 7
    /\ ctx[2].role = "tool_call"
    /\ ctx[5] = Msg("system", Corrective("echo"))
    /\ ctx[6] = Msg("user", "Y")
    /\ ctx[7] = Msg("system", Corrective("echo"))

====
